---- MODULE Spec2Model ----
(***************************************************************************)
(* Content-processing pipeline of oldp:                                    *)
(*   oldp/apps/processing/content_processor.py  (InputHandler,             *)
(*       InputHandlerFS, ContentProcessor)                                 *)
(*   oldp/apps/cases/management/commands/process_cases.py (Command.handle) *)
(*                                                                         *)
(* The controller (ContentProcessor) is driven either by the command,       *)
(* which fixes the order add_arguments; set_input_handler;                 *)
(* set_processing_steps; process; log_stats, or directly through its       *)
(* methods in any order.                                                   *)
(* process() is unfolded into its loops: one action per handle_input call, *)
(* per unit of process_content and per post-processing step.               *)
(***************************************************************************)
EXTENDS Integers, Sequences, FiniteSets, TLC

\* Bounds of the exploration.
MaxRuns == 2        \* calls of process() on one controller
MaxFailures == 2    \* ProcessingErrors raised by collaborators, in total
MaxLimit == 3       \* largest input_limit of a handler examined on its own
MaxStart == 5       \* largest input_start of a handler examined on its own
MaxGetInputCalls == 2   \* calls of get_input on a handler examined on its own

Range(s) == {s[n] : n \in DOMAIN s}

(***************************************************************************)
(* Python list slicing, list[a:] and list[:b], negative indexes included.  *)
(***************************************************************************)
PyIndex(n, len) ==
    IF n < 0 THEN (IF len + n < 0 THEN 0 ELSE len + n)
    ELSE (IF n > len THEN len ELSE n)

SliceFrom(s, a) == SubSeq(s, PyIndex(a, Len(s)) + 1, Len(s))

SliceTo(s, b) == SubSeq(s, 1, PyIndex(b, Len(s)))

(***************************************************************************)
(* The file system seen by InputHandlerFS: one directory with two files    *)
(* (listed by the OS in no particular order), one file outside of it, an   *)
(* empty directory and a path that does not exist.                         *)
(***************************************************************************)
IsDir(path) == path \in {"d", "empty"}

IsFile(path) == path \in {"c.json", "d/a.json", "d/b.json"}

\* glob.glob(selector + dir_selector): the entries of the directory
Glob(path) == IF path = "d" THEN {"d/b.json", "d/a.json"} ELSE {}

\* position of a path in the lexical order of str
LexRank(path) ==
    CASE path = "c.json" -> 1
      [] path = "d" -> 2
      [] path = "d/a.json" -> 3
      [] path = "d/b.json" -> 4
      [] path = "empty" -> 5
      [] OTHER -> 6

RECURSIVE sorted(_)
sorted(S) ==
    IF S = {} THEN <<>>
    ELSE LET least == CHOOSE x \in S : \A y \in S : LexRank(x) <= LexRank(y)
         IN <<least>> \o sorted(S \ {least})

\* input_selector values: None, a str, or a list of selectors
NoneSelector == [kind |-> "none"]
StrSelector(path) == [kind |-> "str", path |-> path]
ListSelector(items) == [kind |-> "list", items |-> items]

\* Variant: the keys of a list selector are sorted as a whole.
RECURSIVE get_input_content_from_selector_GlobalSort(_)
get_input_content_from_selector_GlobalSort(selector) ==
    IF selector.kind = "str" THEN
        IF IsDir(selector.path) THEN sorted(Glob(selector.path))
        ELSE IF IsFile(selector.path) THEN <<selector.path>>
        ELSE <<>>
    ELSE IF selector.kind = "list" THEN
        sorted(UNION {Range(get_input_content_from_selector_GlobalSort(selector.items[n])) :
                          n \in DOMAIN selector.items})
    ELSE <<>>

RECURSIVE get_input_content_from_selector(_)
get_input_content_from_selector(selector) ==
    IF selector.kind = "str" THEN
        IF IsDir(selector.path) THEN sorted(Glob(selector.path))
        ELSE IF IsFile(selector.path) THEN <<selector.path>>
        ELSE <<>>
    ELSE IF selector.kind = "list" THEN
        LET RECURSIVE extend(_, _)
            extend(content, n) ==
                IF n > Len(selector.items) THEN content
                ELSE extend(content \o get_input_content_from_selector(selector.items[n]), n + 1)
        IN extend(<<>>, 1)
    ELSE <<>>

\* Variant: the limit is applied to the resolved keys before the start offset.
get_input_LimitBeforeStart(handler) ==
    IF handler.input_selector = NoneSelector
    THEN [exc |-> "EmptySelector", keys |-> <<>>]
    ELSE LET resolved == get_input_content_from_selector(handler.input_selector)
             limited == IF handler.input_limit > 0
                        THEN SliceTo(resolved, handler.input_limit) ELSE resolved
             content_list == SliceFrom(limited, handler.input_start)
         IN IF Len(content_list) < 1
            THEN [exc |-> "EmptyInput", keys |-> <<>>]
            ELSE [exc |-> "none", keys |-> content_list]

\* Variant: an empty key list is returned like any other.
get_input_ReturnsEmptyList(handler) ==
    IF handler.input_selector = NoneSelector
    THEN [exc |-> "EmptySelector", keys |-> <<>>]
    ELSE LET content_list ==
                 SliceFrom(get_input_content_from_selector(handler.input_selector),
                           handler.input_start)
         IN IF handler.input_limit > 0
            THEN [exc |-> "none", keys |-> SliceTo(content_list, handler.input_limit)]
            ELSE [exc |-> "none", keys |-> content_list]

\* InputHandlerFS.get_input: the keys it returns, or the error it raises
get_input(handler) ==
    IF handler.input_selector = NoneSelector
    THEN [exc |-> "EmptySelector", keys |-> <<>>]
    ELSE LET content_list ==
                 SliceFrom(get_input_content_from_selector(handler.input_selector),
                           handler.input_start)
         IN IF Len(content_list) < 1
            THEN [exc |-> "EmptyInput", keys |-> <<>>]
            ELSE IF handler.input_limit > 0
                 THEN [exc |-> "none", keys |-> SliceTo(content_list, handler.input_limit)]
                 ELSE [exc |-> "none", keys |-> content_list]

\* InputHandler.__init__(limit, start, selector)
InputHandler(limit, start, selector) ==
    [isNone |-> FALSE, input_limit |-> limit, input_start |-> start,
     input_selector |-> selector, pre_processed_content |-> <<>>]

None == [isNone |-> TRUE]

\* a dict held by an attribute that may also be None
Dict(d) == [isNone |-> FALSE, d |-> d]

\* the handlers a caller builds: a directory; a list of a file and a directory, cut by
\* start and limit; a path that does not exist; no selector
HandlerChoices ==
    {InputHandler(0, 0, StrSelector("d")),
     InputHandler(1, 1, ListSelector(<<StrSelector("c.json"), StrSelector("d")>>)),
     InputHandler(0, 0, StrSelector("nope")),
     InputHandler(0, 0, NoneSelector)}

(***************************************************************************)
(* settings.PROCESSING_STEPS[model]: the configured step packages.  A      *)
(* package is its dotted path and what import_module finds in it.          *)
(***************************************************************************)
Package(path, module) == [path |-> path, module |-> module]

SettingsChoices ==
    {<<Package(<<"steps", "a">>, "step"), Package(<<"steps", "b">>, "step")>>,
     <<Package(<<"steps", "a">>, "step"), Package(<<"steps", "x">>, "no_class"),
       Package(<<"steps", "b">>, "step")>>,
     <<Package(<<"steps", "y">>, "not_a_step")>>}

\* step_package.split('.')[-1]
StepName(path) == path[Len(path)]

\* a dict, as the sequence of its items in insertion order
DictHas(d, k) == \E n \in DOMAIN d : d[n].k = k

DictGet(d, k) == d[CHOOSE n \in DOMAIN d : d[n].k = k].v

DictSet(d, k, v) ==
    IF DictHas(d, k)
    THEN [n \in DOMAIN d |-> IF d[n].k = k THEN [k |-> k, v |-> v] ELSE d[n]]
    ELSE Append(d, [k |-> k, v |-> v])

DictKeys(d) == [n \in DOMAIN d |-> d[n].k]

DictValues(d) == [n \in DOMAIN d |-> d[n].v]

(***************************************************************************)
(* The controller's state (ContentProcessor), the position of the caller   *)
(* and of process(), and a log of the calls made to the collaborators.     *)
(***************************************************************************)
VARIABLES
    PROCESSING_STEPS,             \* settings.PROCESSING_STEPS[self.model.__name__]
    caller,                       \* "command": Command.handle drives; "api": direct calls
    handle_pc,                    \* the statement Command.handle is at
    input_handler,                \* None or the handler (with its own queue)
    available_processing_steps,   \* None or the registry dict
    loads,                        \* how often the loop over the step packages was entered
    processing_steps,             \* the selected step instances
    pre_processed_content,
    processed_content,
    pre_processing_errors,
    processing_errors,
    post_processing_errors,
    file_counter,
    file_failed_counter,
    doc_counter,
    doc_failed_counter,
    pc,                           \* where process() is: idle, pre, content, post, done, raised
    input_keys,                   \* the list get_input returned to the for loop of process()
    idx,                          \* the position of the running loop of process()
    raised,                       \* the exception the last call of the caller raised, or "none"
    request,                      \* the last call of set_processing_steps and how it ended
    runs,                         \* calls of process() so far
    get_input_calls,              \* calls of input_handler.get_input() so far
    run_start,                    \* what process() found when it was called
    handled,                      \* this run's handle_input calls: key and outcome
    step_calls,                   \* the step calls of the last call_processing_steps
    sink_calls                    \* this run's calls of post-processing steps

vars ==
    <<PROCESSING_STEPS, caller, handle_pc, input_handler, available_processing_steps, loads,
      processing_steps, pre_processed_content, processed_content, pre_processing_errors,
      processing_errors, post_processing_errors, file_counter, file_failed_counter,
      doc_counter, doc_failed_counter, pc, input_keys, idx, raised, request, runs,
      get_input_calls, run_start, handled, step_calls, sink_calls>>

\* class attribute post_processing_steps, as the concrete controller sets it
post_processing_steps == <<"sink1", "sink2">>

\* A content unit: its identity key and the steps that have rewritten it.
Unit(key) == [key |-> key, applied |-> <<>>]

\* step.process(content) when it returns: the unit, rewritten by the step
StepProcess(step, content) == [content EXCEPT !.applied = Append(@, step)]

\* Case.from_json_file(file_path): the object read from the file, or ValueError for a
\* file that cannot be deserialized
from_json_file(parses) == IF parses THEN "none" ELSE "ValueError"

\* handle_input of the file system handler of cases: the unit of from_json_file is
\* appended to the handler's queue; a file that cannot be parsed is signalled as a
\* per-item error
handle_input(parses) ==
    IF from_json_file(parses) = "none" THEN "none" ELSE "ProcessingError"

\* A collaborator (handle_input, a step, a post-processing step) either returns or
\* raises ProcessingError, the one exception the except clauses of the controller name.
\* a ProcessingError, told apart by who raised it and on what
Error(raised_by, who, key) == [raised_by |-> raised_by, who |-> who, key |-> key]

Failures ==
    Len(pre_processing_errors) + Len(processing_errors) + Len(post_processing_errors)

(***************************************************************************)
(* ContentProcessor.get_available_processing_steps                         *)
(***************************************************************************)
\* Variant: a package that is no valid step package is passed over.
RECURSIVE LoadPackages_SkipsInvalid(_, _, _)
LoadPackages_SkipsInvalid(packages, n, d) ==
    IF n > Len(packages) THEN [d |-> d, exc |-> "none"]
    ELSE IF packages[n].module # "step"
         THEN LoadPackages_SkipsInvalid(packages, n + 1, d)
         ELSE LoadPackages_SkipsInvalid(packages, n + 1,
                  DictSet(d, StepName(packages[n].path), packages[n].path))

\* the loop over the configured step packages: the dict filled, and the error raised
RECURSIVE LoadPackages(_, _, _)
LoadPackages(packages, n, d) ==
    IF n > Len(packages) THEN [d |-> d, exc |-> "none"]
    ELSE IF packages[n].module = "no_class" THEN [d |-> d, exc |-> "InvalidStepPackage"]
    ELSE IF packages[n].module # "step" THEN [d |-> d, exc |-> "InvalidStepContract"]
    ELSE LoadPackages(packages, n + 1,
                      DictSet(d, StepName(packages[n].path), packages[n].path))

\* Variant: the step packages are loaded on every call.
get_available_processing_steps_Reloads(available) ==
    LET loaded == LoadPackages(PROCESSING_STEPS, 1, <<>>)
    IN [d |-> loaded.d, exc |-> loaded.exc, loaded |-> TRUE]

\* the dict left in self.available_processing_steps, the error raised, if any, and
\* whether the loop over the step packages was entered
get_available_processing_steps(available) ==
    IF available.isNone
    THEN LET loaded == LoadPackages(PROCESSING_STEPS, 1, <<>>)
         IN [d |-> loaded.d, exc |-> loaded.exc, loaded |-> TRUE]
    ELSE [d |-> available.d, exc |-> "none", loaded |-> FALSE]

(***************************************************************************)
(* ContentProcessor.set_processing_steps                                   *)
(***************************************************************************)
\* a requested step list: a list of names, or one bare name (argparse's default)
NameList(names) == [isList |-> TRUE, names |-> names]
BareName(name) == [isList |-> FALSE, name |-> name]

\* if not isinstance(step_list, List): step_list = [step_list]
AsList(step_list) == IF step_list.isList THEN step_list.names ELSE <<step_list.name>>

\* Variant: the requested steps are taken in the order of the registry.
SelectSteps_RegistryOrder(step_list, d, n, selected) ==
    IF \E m \in DOMAIN step_list : ~DictHas(d, step_list[m])
    THEN [processing_steps |-> selected, exc |-> "UnknownStep"]
    ELSE [processing_steps |->
              DictValues(SelectSeq(d, LAMBDA item : item.k \in Range(step_list))),
          exc |-> "none"]

\* Variant: a name that is not in the registry is passed over.
RECURSIVE SelectSteps_SkipUnknown(_, _, _, _)
SelectSteps_SkipUnknown(step_list, d, n, selected) ==
    IF n > Len(step_list) THEN [processing_steps |-> selected, exc |-> "none"]
    ELSE IF DictHas(d, step_list[n])
         THEN SelectSteps_SkipUnknown(step_list, d, n + 1,
                                      Append(selected, DictGet(d, step_list[n])))
         ELSE SelectSteps_SkipUnknown(step_list, d, n + 1, selected)

\* the for loop over step_list: the steps appended, and the error raised, if any
RECURSIVE SelectSteps(_, _, _, _)
SelectSteps(step_list, d, n, selected) ==
    IF n > Len(step_list) THEN [processing_steps |-> selected, exc |-> "none"]
    ELSE IF DictHas(d, step_list[n])
         THEN SelectSteps(step_list, d, n + 1, Append(selected, DictGet(d, step_list[n])))
         ELSE [processing_steps |-> selected, exc |-> "UnknownStep"]

\* Variant: the steps selected by an earlier call stay in the list.
set_processing_steps_KeepsOldSteps(step_list, available) ==
    LET loaded == get_available_processing_steps(available)
    IN IF loaded.exc # "none"
       THEN [processing_steps |-> processing_steps, available |-> Dict(loaded.d),
             exc |-> loaded.exc, loaded |-> loaded.loaded]
       ELSE IF "all" \in Range(AsList(step_list))
            THEN [processing_steps |-> processing_steps, available |-> Dict(loaded.d),
                  exc |-> "none", loaded |-> loaded.loaded]
            ELSE LET sel == SelectSteps(AsList(step_list), loaded.d, 1, processing_steps)
                 IN [processing_steps |-> sel.processing_steps, available |-> Dict(loaded.d),
                     exc |-> sel.exc, loaded |-> loaded.loaded]

\* what set_processing_steps leaves in the controller, and the error it raises, if any
set_processing_steps(step_list, available) ==
    LET loaded == get_available_processing_steps(available)
    IN IF loaded.exc # "none"
       THEN [processing_steps |-> <<>>, available |-> Dict(loaded.d), exc |-> loaded.exc,
             loaded |-> loaded.loaded]
       ELSE IF "all" \in Range(AsList(step_list))
            \* return self.available_processing_steps.values(): nothing is stored
            THEN [processing_steps |-> <<>>, available |-> Dict(loaded.d), exc |-> "none",
                  loaded |-> loaded.loaded]
            ELSE LET sel == SelectSteps(AsList(step_list), loaded.d, 1, <<>>)
                 IN [processing_steps |-> sel.processing_steps, available |-> Dict(loaded.d),
                     exc |-> sel.exc, loaded |-> loaded.loaded]

(***************************************************************************)
(* ContentProcessor.call_processing_steps: `fails` are the positions of    *)
(* the steps that raise ProcessingError on this unit.                      *)
(***************************************************************************)
\* Variant: the first failing step ends the chain.
RECURSIVE CallProcessingSteps_StopsAtError(_, _, _, _, _, _)
CallProcessingSteps_StopsAtError(steps, content, fails, n, errors, calls) ==
    IF n > Len(steps) THEN [content |-> content, errors |-> errors, calls |-> calls]
    ELSE LET call == [step |-> steps[n], arg |-> content, ok |-> n \notin fails]
         IN IF n \in fails
            THEN [content |-> content,
                  errors |-> Append(errors, Error("step", steps[n], content.key)),
                  calls |-> Append(calls, call)]
            ELSE CallProcessingSteps_StopsAtError(steps, StepProcess(steps[n], content),
                     fails, n + 1, errors, Append(calls, call))

RECURSIVE CallProcessingSteps(_, _, _, _, _, _)
CallProcessingSteps(steps, content, fails, n, errors, calls) ==
    IF n > Len(steps) THEN [content |-> content, errors |-> errors, calls |-> calls]
    ELSE LET call == [step |-> steps[n], arg |-> content, ok |-> n \notin fails]
         IN IF n \in fails
            THEN CallProcessingSteps(steps, content, fails, n + 1,
                     Append(errors, Error("step", steps[n], content.key)),
                     Append(calls, call))
            ELSE CallProcessingSteps(steps, StepProcess(steps[n], content), fails, n + 1,
                     errors, Append(calls, call))

call_processing_steps(content, fails) ==
    CallProcessingSteps(processing_steps, content, fails, 1, processing_errors, <<>>)

(***************************************************************************)
(* Construction: ContentProcessor.__init__ and the class attributes.       *)
(***************************************************************************)
Init ==
    /\ PROCESSING_STEPS \in SettingsChoices
    /\ caller \in {"command", "api"}
    /\ handle_pc = IF caller = "command" THEN "add_arguments" ELSE "none"
    /\ input_handler = None
    /\ available_processing_steps = None
    /\ loads = 0
    /\ processing_steps = <<>>
    /\ pre_processed_content = <<>>
    /\ processed_content = <<>>
    /\ pre_processing_errors = <<>>
    /\ processing_errors = <<>>
    /\ post_processing_errors = <<>>
    /\ file_counter = 0
    /\ file_failed_counter = 0
    /\ doc_counter = 0
    /\ doc_failed_counter = 0
    /\ pc = "idle"
    /\ input_keys = <<>>
    /\ idx = 0
    /\ raised = "none"
    /\ request = [called |-> FALSE, step_list |-> <<>>, exc |-> "none"]
    /\ runs = 0
    /\ get_input_calls = 0
    /\ run_start = [handler_set |-> FALSE, steps_set |-> FALSE, errors |-> <<0, 0, 0>>,
                    failed |-> 0, get_input_calls |-> 0]
    /\ handled = <<>>
    /\ step_calls = <<>>
    /\ sink_calls = <<>>

(***************************************************************************)
(* The caller.  The command makes its calls in the order of its            *)
(* statements and ends at the first exception; a direct caller makes any   *)
(* call whenever process() is not running.                                 *)
(***************************************************************************)
NotRunning == pc \in {"idle", "done", "raised"}

MayCall(statement) == NotRunning /\ (caller = "api" \/ handle_pc = statement)

AfterCall(exc, next) ==
    handle_pc' = IF caller = "api" THEN handle_pc
                 ELSE IF exc # "none" THEN "raised" ELSE next

\* the locals and the call log of a process() that has ended are gone
ForgetRun ==
    /\ pc' = "idle"
    /\ input_keys' = <<>>
    /\ idx' = 0
    /\ handled' = <<>>
    /\ step_calls' = <<>>
    /\ sink_calls' = <<>>

counters == <<file_counter, file_failed_counter, doc_counter, doc_failed_counter>>

errors == <<pre_processing_errors, processing_errors, post_processing_errors>>

\* get_available_processing_steps called from outside set_processing_steps: by
\* add_arguments of the command (through set_parser_arguments), or directly
GetAvailableProcessingSteps ==
    /\ MayCall("add_arguments")
    /\ LET res == get_available_processing_steps(available_processing_steps)
       IN /\ available_processing_steps' = Dict(res.d)
          /\ loads' = IF res.loaded THEN loads + 1 ELSE loads
          /\ raised' = res.exc
          /\ AfterCall(res.exc, "set_input_handler")
    /\ ForgetRun
    /\ UNCHANGED <<PROCESSING_STEPS, caller, input_handler, processing_steps,
                   pre_processed_content, processed_content, errors, counters, request,
                   runs, get_input_calls, run_start>>

\* handle(): handler = CaseInputHandlerFS(...); self.indexer.set_input_handler(handler)
SetInputHandler ==
    /\ MayCall("set_input_handler")
    /\ input_handler.isNone      \* a caller installs its handler once
    /\ \E handler \in HandlerChoices :
          /\ caller = "command" => handler.input_selector # NoneSelector
          /\ input_handler' = handler
    /\ raised' = "none"
    /\ AfterCall("none", "set_processing_steps")
    /\ ForgetRun
    /\ UNCHANGED <<PROCESSING_STEPS, loads, caller, available_processing_steps, processing_steps,
                   pre_processed_content, processed_content, errors, counters, request,
                   runs, get_input_calls, run_start>>

\* the step lists a caller asks for
RequestChoices ==
    {NameList(<<>>), NameList(<<"a">>), NameList(<<"a", "b">>), NameList(<<"b", "a">>),
     NameList(<<"a", "zz">>), NameList(<<"zz">>), NameList(<<"all">>),
     NameList(<<"zz", "all">>), BareName("all")}

\* handle(): self.indexer.set_processing_steps(options['step'])
SetProcessingSteps ==
    /\ MayCall("set_processing_steps")
    /\ \E step_list \in RequestChoices :
          LET res == set_processing_steps(step_list, available_processing_steps)
          IN /\ processing_steps' = res.processing_steps
             /\ available_processing_steps' = res.available
             /\ loads' = IF res.loaded THEN loads + 1 ELSE loads
             /\ raised' = res.exc
             /\ request' = [called |-> TRUE, step_list |-> AsList(step_list),
                            exc |-> res.exc]
             /\ AfterCall(res.exc, "process")
    /\ ForgetRun
    /\ UNCHANGED <<PROCESSING_STEPS, caller, input_handler, pre_processed_content,
                   processed_content, errors, counters, runs, get_input_calls, run_start>>

(***************************************************************************)
(* ContentProcessor.process                                                *)
(***************************************************************************)
\* Variant: process() leaves the queues of the run before in place.
ResetQueues_KeepsContent == UNCHANGED <<pre_processed_content, processed_content>>

\* process(), "Reset queues"
ResetQueues ==
    /\ pre_processed_content' = <<>>
    /\ processed_content' = <<>>

\* the call, the reset of the queues and the call of get_input
ProcessStart ==
    /\ MayCall("process")
    /\ runs < MaxRuns
    /\ runs' = runs + 1
    /\ run_start' = [handler_set |-> ~input_handler.isNone, steps_set |-> request.called,
                     errors |-> <<Len(pre_processing_errors), Len(processing_errors),
                                  Len(post_processing_errors)>>,
                     failed |-> file_failed_counter + doc_failed_counter,
                     get_input_calls |-> get_input_calls]
    /\ ResetQueues
    /\ handled' = <<>>
    /\ step_calls' = <<>>
    /\ sink_calls' = <<>>
    /\ IF input_handler.isNone
       THEN \* self.input_handler.pre_processed_content = [] on None
            /\ raised' = "AttributeError"
            /\ pc' = "raised"
            /\ input_keys' = <<>>
            /\ idx' = 0
            /\ AfterCall("AttributeError", "log_stats")
            /\ UNCHANGED <<input_handler, get_input_calls>>
       ELSE LET got == get_input(input_handler)
            IN /\ input_handler' = [input_handler EXCEPT !.pre_processed_content = <<>>]
               /\ get_input_calls' = get_input_calls + 1
               /\ raised' = got.exc
               /\ input_keys' = got.keys
               /\ pc' = IF got.exc = "none" THEN "pre" ELSE "raised"
               /\ idx' = IF got.exc = "none" THEN 1 ELSE 0
               /\ AfterCall(got.exc, handle_pc)
    /\ UNCHANGED <<PROCESSING_STEPS, loads, caller, available_processing_steps, processing_steps,
                   errors, counters, request>>

\* Variant: the first failing handle_input ends the enumeration.
HandleInput_StopsAtError ==
    /\ pc = "pre"
    /\ idx <= Len(input_keys)
    /\ \E ok \in BOOLEAN :
          /\ ok \/ Failures < MaxFailures
          /\ handled' = Append(handled, [key |-> input_keys[idx], parsed |-> ok,
                                         ok |-> ok])
          /\ IF ok
             THEN /\ input_handler' =
                        [input_handler EXCEPT !.pre_processed_content =
                            Append(@, Unit(input_keys[idx]))]
                  /\ idx' = idx + 1
                  /\ UNCHANGED pre_processing_errors
             ELSE /\ pre_processing_errors' =
                        Append(pre_processing_errors,
                               Error("handle_input", <<>>, input_keys[idx]))
                  /\ idx' = Len(input_keys) + 1
                  /\ UNCHANGED input_handler
    /\ UNCHANGED <<PROCESSING_STEPS, loads, caller, handle_pc, available_processing_steps,
                   processing_steps, pre_processed_content, processed_content,
                   processing_errors, post_processing_errors, counters, pc, input_keys,
                   raised, request, runs, get_input_calls, run_start, step_calls,
                   sink_calls>>

\* Variant: the for loop over get_input() without its except clause.
HandleInput_Propagates ==
    /\ pc = "pre"
    /\ idx <= Len(input_keys)
    /\ \E parses \in BOOLEAN :
          LET exc == handle_input(parses)
          IN /\ exc = "none" \/ Failures < MaxFailures
             /\ handled' = Append(handled, [key |-> input_keys[idx], parsed |-> parses,
                                            ok |-> exc = "none"])
             /\ input_handler' =
                   IF exc = "none"
                   THEN [input_handler EXCEPT !.pre_processed_content =
                            Append(@, Unit(input_keys[idx]))]
                   ELSE input_handler
             /\ pc' = IF exc = "none" THEN pc ELSE "raised"
             /\ raised' = IF exc = "none" THEN raised ELSE exc
             /\ handle_pc' = IF exc = "none" \/ caller = "api" THEN handle_pc ELSE "raised"
    /\ idx' = idx + 1
    /\ UNCHANGED <<PROCESSING_STEPS, loads, caller, available_processing_steps,
                   processing_steps, pre_processed_content, processed_content, errors,
                   counters, input_keys, request, runs, get_input_calls, run_start,
                   step_calls, sink_calls>>

\* one turn of the for loop over get_input(): handle_input inside try/except, which
\* catches ProcessingError and lets any other exception end process()
HandleInput ==
    /\ pc = "pre"
    /\ idx <= Len(input_keys)
    /\ \E parses \in BOOLEAN :
          LET exc == handle_input(parses)
              caught == exc = "ProcessingError"
          IN /\ exc = "none" \/ Failures < MaxFailures
             /\ handled' = Append(handled, [key |-> input_keys[idx], parsed |-> parses,
                                            ok |-> exc = "none"])
             /\ input_handler' =
                   IF exc = "none"
                   THEN [input_handler EXCEPT !.pre_processed_content =
                            Append(@, Unit(input_keys[idx]))]
                   ELSE input_handler
             /\ pre_processing_errors' =
                   IF caught
                   THEN Append(pre_processing_errors,
                               Error("handle_input", <<>>, input_keys[idx]))
                   ELSE pre_processing_errors
             /\ pc' = IF exc = "none" \/ caught THEN pc ELSE "raised"
             /\ raised' = IF exc = "none" \/ caught THEN raised ELSE exc
             /\ handle_pc' = IF exc = "none" \/ caught \/ caller = "api"
                             THEN handle_pc ELSE "raised"
    /\ idx' = idx + 1
    /\ UNCHANGED <<PROCESSING_STEPS, loads, caller, available_processing_steps,
                   processing_steps, pre_processed_content, processed_content,
                   processing_errors, post_processing_errors, counters, input_keys,
                   request, runs, get_input_calls, run_start, step_calls, sink_calls>>

\* Variant: the controller goes on with its own queue, not with the handler's.
FinishPreProcessing_KeepsOwnQueue ==
    /\ pc = "pre"
    /\ idx > Len(input_keys)
    /\ pc' = "content"
    /\ idx' = 1
    /\ UNCHANGED <<PROCESSING_STEPS, loads, caller, handle_pc, input_handler,
                   available_processing_steps, processing_steps, pre_processed_content,
                   processed_content, errors, counters, input_keys, raised, request, runs,
                   get_input_calls, run_start, handled, step_calls, sink_calls>>

\* the loop is over: self.pre_processed_content = self.input_handler.pre_processed_content
FinishPreProcessing ==
    /\ pc = "pre"
    /\ idx > Len(input_keys)
    /\ pre_processed_content' = input_handler.pre_processed_content
    /\ pc' = "content"
    /\ idx' = 1
    /\ UNCHANGED <<PROCESSING_STEPS, loads, caller, handle_pc, input_handler,
                   available_processing_steps, processing_steps, processed_content, errors,
                   counters, input_keys, raised, request, runs, get_input_calls, run_start,
                   handled, step_calls, sink_calls>>

\* process_content of the concrete controller, one unit of the queue: the step chain is
\* applied and the unit it returns joins the processed queue
ProcessContent ==
    /\ pc = "content"
    /\ idx <= Len(pre_processed_content)
    /\ \E fails \in SUBSET (1 .. Len(processing_steps)) :
          /\ Failures + Cardinality(fails) <= MaxFailures
          /\ LET res == call_processing_steps(pre_processed_content[idx], fails)
             IN /\ processing_errors' = res.errors
                /\ step_calls' = res.calls
                /\ processed_content' = Append(processed_content, res.content)
    /\ doc_counter' = doc_counter + 1
    /\ idx' = idx + 1
    /\ UNCHANGED <<PROCESSING_STEPS, loads, caller, handle_pc, input_handler,
                   available_processing_steps, processing_steps, pre_processed_content,
                   pre_processing_errors, post_processing_errors, file_counter,
                   file_failed_counter, doc_failed_counter, pc, input_keys, raised, request,
                   runs, get_input_calls, run_start, handled, sink_calls>>

\* Variant: the post-processing steps are called while process_content is at work.
FinishContent_Early ==
    /\ pc = "content"
    /\ pc' = "post"
    /\ idx' = 1
    /\ UNCHANGED <<PROCESSING_STEPS, loads, caller, handle_pc, input_handler,
                   available_processing_steps, processing_steps, pre_processed_content,
                   processed_content, errors, counters, input_keys, raised, request, runs,
                   get_input_calls, run_start, handled, step_calls, sink_calls>>

\* process_content has returned
FinishContent ==
    /\ pc = "content"
    /\ idx > Len(pre_processed_content)
    /\ pc' = "post"
    /\ idx' = 1
    /\ UNCHANGED <<PROCESSING_STEPS, loads, caller, handle_pc, input_handler,
                   available_processing_steps, processing_steps, pre_processed_content,
                   processed_content, errors, counters, input_keys, raised, request, runs,
                   get_input_calls, run_start, handled, step_calls, sink_calls>>

\* Variants of the loop over post_processing_steps. "stop": a failing sink ends the
\* loop; "wrong_list": its error goes to processing_errors; "propagate": its error is
\* not caught and ends process(); "drop_failed": the sinks are handed only the units
\* on which every selected step succeeded.
CallSinkVariant(variant) ==
    /\ pc = "post"
    /\ idx <= Len(post_processing_steps)
    /\ \E ok \in BOOLEAN :
          LET e == Error("sink", <<post_processing_steps[idx]>>, "")
              queue == IF variant = "drop_failed"
                       THEN SelectSeq(processed_content,
                                      LAMBDA u : u.applied = processing_steps)
                       ELSE processed_content
          IN /\ ok \/ Failures < MaxFailures
             /\ sink_calls' = Append(sink_calls, [sink |-> post_processing_steps[idx],
                                                  arg |-> queue, ok |-> ok])
             /\ post_processing_errors' =
                   IF ok \/ variant \in {"wrong_list", "propagate"}
                   THEN post_processing_errors
                   ELSE Append(post_processing_errors, e)
             /\ processing_errors' =
                   IF ~ok /\ variant = "wrong_list"
                   THEN Append(processing_errors, e) ELSE processing_errors
             /\ idx' = IF ~ok /\ variant = "stop"
                       THEN Len(post_processing_steps) + 1 ELSE idx + 1
             /\ pc' = IF ~ok /\ variant = "propagate" THEN "raised" ELSE pc
             /\ raised' = IF ~ok /\ variant = "propagate" THEN "ProcessingError" ELSE raised
    /\ UNCHANGED <<PROCESSING_STEPS, loads, caller, handle_pc, input_handler,
                   available_processing_steps, processing_steps, pre_processed_content,
                   processed_content, pre_processing_errors, counters, input_keys, request,
                   runs, get_input_calls, run_start, handled, step_calls>>

CallSink_StopsAtError == CallSinkVariant("stop")

CallSink_WrongList == CallSinkVariant("wrong_list")

CallSink_Propagates == CallSinkVariant("propagate")

CallSink_DropsFailedUnits == CallSinkVariant("drop_failed")

\* one turn of the for loop over post_processing_steps: step.process inside try/except
CallSink ==
    /\ pc = "post"
    /\ idx <= Len(post_processing_steps)
    /\ \E ok \in BOOLEAN :
          /\ ok \/ Failures < MaxFailures
          /\ sink_calls' = Append(sink_calls, [sink |-> post_processing_steps[idx],
                                               arg |-> processed_content, ok |-> ok])
          /\ post_processing_errors' =
                IF ok THEN post_processing_errors
                ELSE Append(post_processing_errors,
                            Error("sink", <<post_processing_steps[idx]>>, ""))
    /\ idx' = idx + 1
    /\ UNCHANGED <<PROCESSING_STEPS, loads, caller, handle_pc, input_handler,
                   available_processing_steps, processing_steps, pre_processed_content,
                   processed_content, pre_processing_errors, processing_errors, counters,
                   pc, input_keys, raised, request, runs, get_input_calls, run_start,
                   handled, step_calls>>

\* process() returns to its caller
ProcessReturn ==
    /\ pc = "post"
    /\ idx > Len(post_processing_steps)
    /\ pc' = "done"
    /\ AfterCall("none", "log_stats")
    /\ UNCHANGED <<PROCESSING_STEPS, loads, caller, input_handler, available_processing_steps,
                   processing_steps, pre_processed_content, processed_content, errors,
                   counters, input_keys, idx, raised, request, runs, get_input_calls,
                   run_start, handled, step_calls, sink_calls>>

\* handle(): self.indexer.log_stats() reads the counters and the error lists
LogStats ==
    /\ caller = "command"
    /\ handle_pc = "log_stats"
    /\ handle_pc' = "end"
    /\ UNCHANGED <<PROCESSING_STEPS, loads, caller, input_handler, available_processing_steps,
                   processing_steps, pre_processed_content, processed_content, errors,
                   counters, pc, input_keys, idx, raised, request, runs, get_input_calls,
                   run_start, handled, step_calls, sink_calls>>

Next ==
    \/ GetAvailableProcessingSteps
    \/ SetInputHandler
    \/ SetProcessingSteps
    \/ ProcessStart
    \/ HandleInput
    \/ FinishPreProcessing
    \/ ProcessContent
    \/ FinishContent
    \/ CallSink
    \/ ProcessReturn
    \/ LogStats

Spec == Init /\ [][Next]_vars

\* process() is run by one thread of control: once called, it keeps taking its steps.
RunStep ==
    \/ HandleInput
    \/ FinishPreProcessing
    \/ ProcessContent
    \/ FinishContent
    \/ CallSink
    \/ ProcessReturn

LiveSpec == Spec /\ WF_vars(RunStep)

(***************************************************************************)
(* InputHandlerFS on its own: a handler constructed with any limit, start  *)
(* and selector, and get_input called on it.                               *)
(***************************************************************************)
Selectors ==
    {NoneSelector,
     StrSelector("d"), StrSelector("c.json"), StrSelector("empty"), StrSelector("nope"),
     ListSelector(<<>>),
     ListSelector(<<StrSelector("c.json"), StrSelector("d")>>),
     ListSelector(<<StrSelector("d"), StrSelector("c.json")>>),
     ListSelector(<<StrSelector("d"), StrSelector("c.json"), StrSelector("d")>>),
     ListSelector(<<StrSelector("empty"),
                    ListSelector(<<StrSelector("c.json"), StrSelector("c.json")>>)>>),
     ListSelector(<<ListSelector(<<StrSelector("d")>>), StrSelector("nope"),
                    StrSelector("c.json")>>)}

InputHandlers ==
    {InputHandler(limit, start, selector) :
        limit \in -1 .. MaxLimit, start \in -2 .. MaxStart, selector \in Selectors}

InputInit ==
    /\ PROCESSING_STEPS = <<>>
    /\ caller = "api"
    /\ handle_pc = "none"
    /\ input_handler \in InputHandlers
    /\ available_processing_steps = None
    /\ loads = 0
    /\ processing_steps = <<>>
    /\ pre_processed_content = <<>>
    /\ processed_content = <<>>
    /\ pre_processing_errors = <<>>
    /\ processing_errors = <<>>
    /\ post_processing_errors = <<>>
    /\ file_counter = 0
    /\ file_failed_counter = 0
    /\ doc_counter = 0
    /\ doc_failed_counter = 0
    /\ pc = "idle"
    /\ input_keys = <<>>
    /\ idx = 0
    /\ raised = "none"
    /\ request = [called |-> FALSE, step_list |-> <<>>, exc |-> "none"]
    /\ runs = 0
    /\ get_input_calls = 0
    /\ run_start = [handler_set |-> FALSE, steps_set |-> FALSE, errors |-> <<0, 0, 0>>,
                    failed |-> 0, get_input_calls |-> 0]
    /\ handled = <<>>
    /\ step_calls = <<>>
    /\ sink_calls = <<>>

\* input_handler.get_input(), called on the handler directly
GetInput ==
    /\ get_input_calls < MaxGetInputCalls
    /\ LET got == get_input(input_handler)
       IN /\ input_keys' = got.keys
          /\ raised' = got.exc
    /\ get_input_calls' = get_input_calls + 1
    /\ UNCHANGED <<PROCESSING_STEPS, loads, caller, handle_pc, input_handler,
                   available_processing_steps, processing_steps, pre_processed_content,
                   processed_content, errors, counters, pc, idx, request, runs, run_start,
                   handled, step_calls, sink_calls>>

InputNext == GetInput

InputSpec == InputInit /\ [][InputNext]_vars

(***************************************************************************)
(* Properties                                                              *)
(***************************************************************************)
\* the names of a list of step instances
StepNames(steps) == [n \in DOMAIN steps |-> StepName(steps[n])]

\* the last set_processing_steps failed while it loaded the registry
LoadFailed == request.exc \in {"InvalidStepPackage", "InvalidStepContract"}

Registered(name) == DictHas(available_processing_steps.d, name)

\* call_processing_steps has returned at least once in the run at hand
ChainReturned == pc \in {"content", "post", "done"} /\ processed_content # <<>>

\* C1: after set_processing_steps was called with 'all' (alone or as one of the requested
\* names), the selected step list holds every step of the registry.
C1_AllSelectsEveryStep ==
    (request.called /\ request.exc = "none" /\ "all" \in Range(request.step_list))
        => \A n \in DOMAIN available_processing_steps.d :
              available_processing_steps.d[n].v \in Range(processing_steps)

\* C2: for a requested list without 'all' whose names are all in the registry, the selected
\* step list is the requested names in the caller's order, and call_processing_steps
\* calls the steps on a unit in exactly that order.
C2_Requested ==
    /\ request.called
    /\ ~LoadFailed
    /\ "all" \notin Range(request.step_list)
    /\ \A n \in DOMAIN request.step_list : Registered(request.step_list[n])

C2_SelectionKeepsRequestedOrder ==
    C2_Requested =>
        /\ request.exc = "none"
        /\ StepNames(processing_steps) = request.step_list
        /\ ChainReturned =>
              StepNames([n \in DOMAIN step_calls |-> step_calls[n].step]) = request.step_list

\* C2 witness: steps requested against the order of the registry were called in that order.
C2_Witness ==
    /\ C2_Requested
    /\ request.step_list = <<"b", "a">>
    /\ DictKeys(available_processing_steps.d) = <<"a", "b">>
    /\ ChainReturned
    /\ StepNames([n \in DOMAIN step_calls |-> step_calls[n].step]) = <<"b", "a">>

\* a requested name, other than the sentinel, that the registry does not hold
HasUnknownName ==
    \E n \in DOMAIN request.step_list :
        request.step_list[n] # "all" /\ ~Registered(request.step_list[n])

\* the command never got to process(): no run, no input read
CommandStoppedBeforeProcess ==
    caller = "command" => (handle_pc = "raised" /\ runs = 0 /\ get_input_calls = 0)

NewErrors(list, stage) == SubSeq(list, run_start.errors[stage] + 1, Len(list))

\* process() was called before set_input_handler or before set_processing_steps
StartedUnconfigured ==
    runs > 0 /\ pc # "idle" /\ (~run_start.handler_set \/ ~run_start.steps_set)

\* C4: process() on a controller whose input handler or step list was never set fails
\* and leaves the controller idle: no input key is read and no unit is handled.
C4_UnconfiguredProcessFails ==
    StartedUnconfigured =>
        /\ pc = "raised"
        /\ input_keys = <<>>
        /\ handled = <<>>

\* the outcome of this run's handle_input calls, as keys and as errors
HandledKeys == [n \in DOMAIN handled |-> handled[n].key]

FailedHandled == SelectSeq(handled, LAMBDA h : ~h.ok)

\* C5: handle_input is called once for every key of get_input, in key order, whatever
\* failed before; each failure adds exactly one entry to pre_processing_errors.
C5_EveryKeyHandledOnce ==
    pc \in {"pre", "content", "post", "done"} =>
        /\ HandledKeys = SubSeq(input_keys, 1, Len(handled))
        /\ pc = "pre" => Len(handled) = idx - 1
        /\ pc # "pre" => HandledKeys = input_keys
        /\ NewErrors(pre_processing_errors, 1) =
              [n \in DOMAIN FailedHandled |->
                  Error("handle_input", <<>>, FailedHandled[n].key)]

\* C5 witness: the first key failed, the second was handled all the same.
C5_Witness ==
    /\ pc = "done"
    /\ Len(input_keys) = 2
    /\ Len(handled) = 2
    /\ ~handled[1].ok
    /\ handled[2].ok
    /\ Len(NewErrors(pre_processing_errors, 1)) = 1

\* the unit the last call_processing_steps was given, and the one it returned
LastGiven == pre_processed_content[Len(processed_content)]

LastReturned == processed_content[Len(processed_content)]

FailedStepCalls == SelectSeq(step_calls, LAMBDA c : ~c.ok)

\* the unit after the calls 1..n of the chain: only the calls that succeeded rewrote it
RECURSIVE AfterCalls(_, _, _)
AfterCalls(unit, calls, n) ==
    IF n = 0 THEN unit
    ELSE IF calls[n].ok THEN StepProcess(calls[n].step, AfterCalls(unit, calls, n - 1))
         ELSE AfterCalls(unit, calls, n - 1)

\* C6: call_processing_steps calls every selected step once, in order, whatever failed
\* before; a failing step adds exactly one entry to processing_errors, the next step is
\* given the output of the last step that succeeded, and that unit is what is returned.
C6_ChainCallsEveryStep ==
    ChainReturned =>
        /\ [n \in DOMAIN step_calls |-> step_calls[n].step] = processing_steps
        /\ \A n \in DOMAIN step_calls :
              step_calls[n].arg = AfterCalls(LastGiven, step_calls, n - 1)
        /\ LastReturned = AfterCalls(LastGiven, step_calls, Len(step_calls))
        /\ Len(FailedStepCalls) <= Len(NewErrors(processing_errors, 2))
        /\ SubSeq(processing_errors, Len(processing_errors) - Len(FailedStepCalls) + 1,
                  Len(processing_errors)) =
              [n \in DOMAIN FailedStepCalls |->
                  Error("step", FailedStepCalls[n].step, LastGiven.key)]

\* C6 witness: the first of two steps failed; the second ran on the untouched unit.
C6_Witness ==
    /\ ChainReturned
    /\ Len(step_calls) = 2
    /\ ~step_calls[1].ok
    /\ step_calls[2].ok
    /\ step_calls[2].arg = LastGiven
    /\ LastReturned.applied = <<step_calls[2].step>>

FailedSinkCalls == SelectSeq(sink_calls, LAMBDA c : ~c.ok)

\* C7: in a run, every post-processing step is called once, in configured order, with
\* the whole processed queue; a failing one adds exactly one entry to
\* post_processing_errors and the later ones are still called with the same queue.
C7_EverySinkGetsWholeQueue ==
    /\ pc \in {"pre", "content"} => sink_calls = <<>>
    /\ pc \in {"post", "done"} =>
          /\ [n \in DOMAIN sink_calls |-> sink_calls[n].sink] =
                SubSeq(post_processing_steps, 1, Len(sink_calls))
          /\ pc = "post" => Len(sink_calls) = idx - 1
          /\ pc = "done" => Len(sink_calls) = Len(post_processing_steps)
          /\ \A n \in DOMAIN sink_calls : sink_calls[n].arg = processed_content
          /\ NewErrors(post_processing_errors, 3) =
                [n \in DOMAIN FailedSinkCalls |->
                    Error("sink", <<FailedSinkCalls[n].sink>>, "")]

\* C7 witness: the first sink failed on a queue of two units; the second got the queue.
C7_Witness ==
    /\ pc = "done"
    /\ Len(processed_content) = 2
    /\ Len(sink_calls) = 2
    /\ ~sink_calls[1].ok
    /\ sink_calls[2].ok
    /\ sink_calls[2].arg = processed_content
    /\ Len(NewErrors(post_processing_errors, 3)) = 1

\* the failures caught in one step of the program, by the stage that caught them
HandleInputFailedNow ==
    Len(handled') = Len(handled) + 1 /\ ~handled'[Len(handled')].ok

StepsFailedNow ==
    IF pc = "content" /\ Len(processed_content') = Len(processed_content) + 1
    THEN Len(SelectSeq(step_calls', LAMBDA c : ~c.ok))
    ELSE 0

SinkFailedNow ==
    Len(sink_calls') = Len(sink_calls) + 1 /\ ~sink_calls'[Len(sink_calls')].ok

\* `after` is `before` with `n` entries appended, all raised by `raised_by`
Gained(before, after, n, raised_by) ==
    /\ Len(after) = Len(before) + n
    /\ SubSeq(after, 1, Len(before)) = before
    /\ \A m \in (Len(before) + 1) .. Len(after) : after[m].raised_by = raised_by

\* C8: every failure caught in a run adds an entry to exactly one of the three error
\* lists, the one of its own stage, and leaves the other two unchanged.
C8_FailureGoesToItsOwnList ==
    [][/\ Gained(pre_processing_errors, pre_processing_errors',
                 IF HandleInputFailedNow THEN 1 ELSE 0, "handle_input")
       /\ Gained(processing_errors, processing_errors', StepsFailedNow, "step")
       /\ Gained(post_processing_errors, post_processing_errors',
                 IF SinkFailedNow THEN 1 ELSE 0, "sink")]_vars

\* C8 witness: a run that caught a failure of handle_input and one of a sink, and none
\* of a step.
C8_Witness ==
    /\ pc = "done"
    /\ Len(NewErrors(pre_processing_errors, 1)) = 1
    /\ NewErrors(processing_errors, 2) = <<>>
    /\ Len(NewErrors(post_processing_errors, 3)) = 1
    /\ \E n \in DOMAIN handled : ~handled[n].ok
    /\ \E n \in DOMAIN sink_calls : ~sink_calls[n].ok
    /\ processing_steps # <<>>

\* C9: every failure caught in a run adds one to file_failed_counter or to
\* doc_failed_counter: after a run the two counters have grown by the number of entries
\* the error lists gained in that run.
C9_FailuresAreCounted ==
    pc = "done" =>
        (file_failed_counter + doc_failed_counter) - run_start.failed =
            Len(NewErrors(pre_processing_errors, 1)) + Len(NewErrors(processing_errors, 2))
                + Len(NewErrors(post_processing_errors, 3))

Extends(before, after) ==
    Len(after) >= Len(before) /\ SubSeq(after, 1, Len(before)) = before

\* C11: every call of process() starts its run with an empty pre-processed queue, an
\* empty processed queue and an empty queue of the input handler, whatever an earlier
\* run left in them; no step of the program removes or rewrites an entry of the three
\* error lists, which only grow.
C11_RunStartsEmptyErrorsKept ==
    [][/\ (runs' = runs + 1) =>
             /\ pre_processed_content' = <<>>
             /\ processed_content' = <<>>
             /\ ~input_handler'.isNone => input_handler'.pre_processed_content = <<>>
       /\ Extends(pre_processing_errors, pre_processing_errors')
       /\ Extends(processing_errors, processing_errors')
       /\ Extends(post_processing_errors, post_processing_errors')]_vars

\* C11 witness: a second run has just started with empty queues on a controller whose
\* first run processed a unit and recorded an error.
C11_Witness ==
    /\ runs = 2
    /\ pc = "pre"
    /\ idx = 1
    /\ doc_counter > 0
    /\ pre_processed_content = <<>>
    /\ processed_content = <<>>
    /\ input_handler.pre_processed_content = <<>>
    /\ Failures > 0
    /\ run_start.errors = <<Len(pre_processing_errors), Len(processing_errors),
                            Len(post_processing_errors)>>

\* the handler's selector resolved into keys, and the arguments of the handler
Resolved == get_input_content_from_selector(input_handler.input_selector)

Min(a, b) == IF a < b THEN a ELSE b

\* get_input has been called on the handler and has returned or raised
GetInputCalled == get_input_calls > 0

\* C12: for a selector resolving to total keys and a start with 0 <= start < total,
\* get_input returns the keys start+1 .. start+limit of the resolved sequence (those
\* that exist) when limit > 0 and the keys from start+1 on when limit <= 0; its length
\* is min(limit, total - start) when limit > 0, else total - start.
C12_GetInputReturnsTheSlice ==
    LET total == Len(Resolved)
        start == input_handler.input_start
        limit == input_handler.input_limit
        length == IF limit > 0 THEN Min(limit, total - start) ELSE total - start
    IN (/\ GetInputCalled
        /\ input_handler.input_selector # NoneSelector
        /\ 0 <= start
        /\ start < total)
           => /\ raised = "none"
              /\ Len(input_keys) = length
              /\ input_keys = [n \in 1 .. length |-> Resolved[start + n]]

\* C12 witness: five resolved keys, cut to the second and third by start 1 and limit 2.
C12_Witness ==
    /\ GetInputCalled
    /\ Len(Resolved) = 5
    /\ input_handler.input_start = 1
    /\ input_handler.input_limit = 2
    /\ input_keys = <<"d/b.json", "c.json">>

\* the resolved keys after the start offset and the limit (none for limit <= 0)
Sliced ==
    LET from_start == SliceFrom(Resolved, input_handler.input_start)
    IN IF input_handler.input_limit > 0
       THEN SliceTo(from_start, input_handler.input_limit)
       ELSE from_start

\* C13: get_input fails with EmptySelector when the selector is unset; with a selector it
\* fails with EmptyInput exactly when the resolved keys, cut by start and limit, are
\* none, and otherwise returns; a list it returns is never empty.
C13_EmptySelectorEmptyInput ==
    GetInputCalled =>
        /\ input_handler.input_selector = NoneSelector => raised = "EmptySelector"
        /\ input_handler.input_selector # NoneSelector =>
              /\ raised \in {"EmptyInput", "none"}
              /\ raised = "EmptyInput" <=> Sliced = <<>>
        /\ raised = "none" => (input_keys # <<>> /\ input_keys = Sliced)

\* C13 witness: a selector that resolves to keys, all of them cut off by the start
\* offset of a handler with a limit, made get_input fail with EmptyInput.
C13_Witness ==
    /\ GetInputCalled
    /\ Len(Resolved) > 0
    /\ input_handler.input_start >= Len(Resolved)
    /\ input_handler.input_limit > 0
    /\ raised = "EmptyInput"
    /\ input_keys = <<>>

\* the concatenation of a sequence of sequences
RECURSIVE Concat(_)
Concat(seqs) ==
    IF seqs = <<>> THEN <<>>
    ELSE Concat(SubSeq(seqs, 1, Len(seqs) - 1)) \o seqs[Len(seqs)]

Ascending(keys) ==
    \A n, m \in DOMAIN keys : n < m => LexRank(keys[n]) < LexRank(keys[m])

\* C14: the keys of a list selector are the keys of its elements, each resolved on its
\* own, one after the other in the order of the list; the keys of a directory are its
\* matched entries in ascending order and the key of a file is the file. (Read off the
\* keys get_input returns for start 0 and no limit.)
C14_ListKeepsSelectorOrder ==
    LET selector == input_handler.input_selector
    IN (/\ GetInputCalled
        /\ raised = "none"
        /\ input_handler.input_start = 0
        /\ input_handler.input_limit <= 0)
           => /\ selector.kind = "list" =>
                    input_keys =
                        Concat([n \in DOMAIN selector.items |->
                                   get_input_content_from_selector(selector.items[n])])
              /\ (selector.kind = "str" /\ IsDir(selector.path)) =>
                    /\ Range(input_keys) = Glob(selector.path)
                    /\ Len(input_keys) = Cardinality(Glob(selector.path))
                    /\ Ascending(input_keys)
              /\ (selector.kind = "str" /\ ~IsDir(selector.path)) =>
                    input_keys = <<selector.path>>

\* C14 witness: a directory listed before a file that sorts before its entries.
C14_Witness ==
    /\ GetInputCalled
    /\ input_handler.input_selector =
          ListSelector(<<StrSelector("d"), StrSelector("c.json")>>)
    /\ input_keys = <<"d/a.json", "d/b.json", "c.json">>
    /\ ~Ascending(input_keys)

\* the keys of the units of a queue
UnitKeys(queue) == [n \in DOMAIN queue |-> queue[n].key]

\* this run's handle_input calls that appended a unit
AppendedHandled == SelectSeq(handled, LAMBDA h : h.ok)

\* C15: with a handle_input that appends one unit or fails, once the pre-processing
\* stage of a run is over the units of the pre-processed queue and the pre-processing
\* errors of the run are together as many as the keys get_input returned, and the
\* queue holds the units of the keys that did not fail, in key order.
C15_QueuePlusErrorsAreTheKeys ==
    pc \in {"content", "post", "done"} =>
        /\ Len(pre_processed_content) + Len(NewErrors(pre_processing_errors, 1)) =
              Len(input_keys)
        /\ HandledKeys = input_keys
        /\ pre_processed_content =
              [n \in DOMAIN AppendedHandled |-> Unit(AppendedHandled[n].key)]

\* C15 witness: of two keys the first failed; the queue holds the unit of the second.
C15_Witness ==
    /\ pc = "content"
    /\ Len(input_keys) = 2
    /\ ~handled[1].ok
    /\ pre_processed_content = <<Unit(input_keys[2])>>
    /\ Len(NewErrors(pre_processing_errors, 1)) = 1

\* a step failed on the unit of a key in the run at hand
StepFailedOn(step, key) ==
    Error("step", step, key) \in Range(NewErrors(processing_errors, 2))

\* C16: a unit on which a step failed is still returned by the step chain and stands,
\* at its place in the enumeration of the input handler, in the processed queue and in
\* the queue every sink is handed; every unit, the ones after it included, has had every
\* selected step applied that did not fail on it; the units the sinks see are in the
\* order of the input handler's enumeration.
C16_FailedUnitStaysInOrder ==
    /\ pc \in {"content", "post", "done"} =>
          /\ UnitKeys(processed_content) =
                SubSeq(UnitKeys(pre_processed_content), 1, Len(processed_content))
          /\ \A n \in DOMAIN processed_content :
                processed_content[n].applied =
                    SelectSeq(processing_steps,
                              LAMBDA step : ~StepFailedOn(step, processed_content[n].key))
    /\ pc \in {"post", "done"} =>
          /\ UnitKeys(processed_content) = UnitKeys(pre_processed_content)
          /\ UnitKeys(processed_content) =
                [n \in DOMAIN AppendedHandled |-> AppendedHandled[n].key]
          /\ \A n \in DOMAIN sink_calls :
                UnitKeys(sink_calls[n].arg) = UnitKeys(pre_processed_content)

\* C16 witness: the first of two steps failed on the first of two units; the sinks were
\* handed both units in the order of the enumeration, the second with both steps applied.
C16_Witness ==
    /\ pc = "done"
    /\ Len(processing_steps) = 2
    /\ Len(processed_content) = 2
    /\ UnitKeys(processed_content) = input_keys
    /\ StepFailedOn(processing_steps[1], input_keys[1])
    /\ processed_content[1].applied = <<processing_steps[2]>>
    /\ processed_content[2].applied = processing_steps
    /\ \A n \in DOMAIN sink_calls : sink_calls[n].arg = processed_content

\* this run's handle_input calls on a file that from_json_file could not parse
UnparsedHandled == SelectSeq(handled, LAMBDA h : ~h.parsed)

InvalidEntries == {n \in DOMAIN PROCESSING_STEPS : PROCESSING_STEPS[n].module # "step"}

\* the first of them: the one the build of the registry comes to
FirstInvalid == CHOOSE n \in InvalidEntries : \A m \in InvalidEntries : n <= m

\* a step of the program in which the registry is built
RegistryIsBuilt ==
    available_processing_steps.isNone /\ ~available_processing_steps'.isNone

\* C18: building the registry from a configuration with an entry that has no step
\* implementation fails with InvalidStepPackage, and with an entry whose implementation
\* is no step with InvalidStepContract (the first such entry decides); the failure is
\* raised by the setup call, outside process(), and in the command before process() is
\* called or any input is read.
C18_InvalidEntryFailsTheBuild ==
    [][(RegistryIsBuilt /\ InvalidEntries # {}) =>
          /\ PROCESSING_STEPS[FirstInvalid].module = "no_class" =>
                raised' = "InvalidStepPackage"
          /\ PROCESSING_STEPS[FirstInvalid].module = "not_a_step" =>
                raised' = "InvalidStepContract"
          /\ NotRunning /\ pc' = "idle"
          /\ caller = "command" =>
                (handle_pc' = "raised" /\ runs' = 0 /\ get_input_calls' = 0)]_vars

\* C18 witness: the command was ended by a configured package without a step
\* implementation, before it had a handler or had read any input.
C18_Witness ==
    /\ caller = "command"
    /\ \E n \in DOMAIN PROCESSING_STEPS : PROCESSING_STEPS[n].module = "no_class"
    /\ raised = "InvalidStepPackage"
    /\ handle_pc = "raised"
    /\ input_handler.isNone
    /\ get_input_calls = 0

\* C19: in a run of process() on a controller with an input handler, get_input is called
\* once, before any handle_input call; handle_input has been called for every key
\* before process_content starts; process_content has gone through the whole
\* pre-processed queue before the first sink is called; and the processed queue does not
\* change while the sinks are called.
C19_StagesRunOneAfterTheOther ==
    /\ [](pc \in {"pre", "content", "post", "done"} =>
            /\ get_input_calls = run_start.get_input_calls + 1
            /\ pc = "pre" =>
                  /\ Len(handled) = idx - 1
                  /\ pre_processed_content = <<>>
                  /\ processed_content = <<>>
                  /\ step_calls = <<>>
                  /\ sink_calls = <<>>
            /\ pc = "content" =>
                  /\ Len(handled) = Len(input_keys)
                  /\ Len(processed_content) = idx - 1
                  /\ sink_calls = <<>>
            /\ pc \in {"post", "done"} =>
                  /\ Len(handled) = Len(input_keys)
                  /\ Len(processed_content) = Len(pre_processed_content))
    /\ [][/\ pc \in {"pre", "content", "post"} => get_input_calls' = get_input_calls
          /\ pc \in {"content", "post"} => handled' = handled
          /\ pc = "post" => processed_content' = processed_content]_vars

\* C19 witness: in a second run, the first sink has been called after two keys were
\* handled and two units processed, with get_input called once in each run.
C19_Witness ==
    /\ runs = 2
    /\ get_input_calls = 2
    /\ pc = "post"
    /\ Len(sink_calls) = 1
    /\ Len(handled) = 2
    /\ Len(processed_content) = 2

\* C20: on one controller the step packages are loaded at most once; once
\* get_available_processing_steps has been called, no later call, from
\* set_processing_steps or from outside, in any run, loads them again or changes the
\* mapping that is returned.
C20_RegistryBuiltOnce ==
    /\ [](loads <= 1)
    /\ [](loads = 0 <=> available_processing_steps.isNone)
    /\ [][~available_processing_steps.isNone =>
             /\ available_processing_steps' = available_processing_steps
             /\ loads' = loads]_vars

\* C20 witness: the command loaded the registry for its arguments; set_processing_steps
\* and a run followed, and the packages were loaded once.
C20_Witness ==
    /\ caller = "command"
    /\ request.called
    /\ request.step_list = <<"b", "a">>
    /\ pc = "done"
    /\ loads = 1
    /\ DictKeys(available_processing_steps.d) = <<"a", "b">>

\* the last set_processing_steps was returned the registry by
\* get_available_processing_steps: that call did not raise
RegistryReturned == request.called /\ ~LoadFailed

\* the names of the step packages configured for the controller's model
ConfiguredNames == {StepName(PROCESSING_STEPS[n].path) : n \in DOMAIN PROCESSING_STEPS}

\* C21: whenever get_available_processing_steps returns without raising, on a first call
\* or on a call after one that failed, the mapping it returns has an entry for every
\* configured step package.
C21_ReturnedRegistryIsComplete ==
    RegistryReturned => \A name \in ConfiguredNames : Registered(name)

\* the last set_processing_steps asked for registered names only, none of them 'all',
\* and was not ended by a failure to load the registry
ExplicitRegisteredRequest ==
    /\ request.called
    /\ ~LoadFailed
    /\ "all" \notin Range(request.step_list)
    /\ \A n \in DOMAIN request.step_list : Registered(request.step_list[n])

\* C22: set_processing_steps replaces the selection: after any sequence of calls, when
\* the last one asked for explicit registered names the selected step list is the step
\* instances of exactly those names, as many as were asked for, with no step of an
\* earlier call left in it.
C22_SelectionIsReplaced ==
    ExplicitRegisteredRequest =>
        /\ request.exc = "none"
        /\ Len(processing_steps) = Len(request.step_list)
        /\ processing_steps =
              [n \in DOMAIN request.step_list |->
                  DictGet(available_processing_steps.d, request.step_list[n])]

\* C22 witness: a run applied the steps a and b of an earlier selection to a unit; a
\* later call asked for a alone, and a alone is selected.
C22_Witness ==
    /\ processed_content # <<>>
    /\ StepNames(processed_content[1].applied) = <<"a", "b">>
    /\ pc = "idle"
    /\ request.step_list = <<"a">>
    /\ request.exc = "none"
    /\ StepNames(processing_steps) = <<"a">>

====
